---- MODULE Spec2Model ----
(***************************************************************************)
(* BaseEnvManager (ctools/worker/actor/env_manager/base_env_manager.py):   *)
(* a pool of env_num environment actors plus one reference actor, driven   *)
(* through launch / reset / step / seed / close.                           *)
(*                                                                         *)
(* Python slot indices 0..env_num-1 are the indices 1..EnvNum here; the    *)
(* per-slot dicts and lists of the class are sequences over 1..EnvNum.     *)
(* An attribute the object does not have yet is the empty sequence (the    *)
(* reference actor: NoRef).  An actor object is modelled by the number of  *)
(* close() invocations it has received; 0 means it is open.                *)
(*                                                                         *)
(* Environment assumptions: the factory and an actor's reset, step and     *)
(* seed may raise; an actor's close does not raise; the factory returns a  *)
(* new actor on every call.  The slot actors built before a factory call   *)
(* raises inside _create_state's list are referred to by no attribute and  *)
(* are not part of the state.                                              *)
(***************************************************************************)
EXTENDS Integers, Sequences, FiniteSets

\* ---------------------------------------------------------------- bounds
EnvNum == 2
MaxBudget == 2
MaxCount == 2
MaxObs == 1
MaxCloses == 2

\* ------------------------------------------------------- program values
\* the caller's 'inf' token for episode_num, and what __init__ stores for it
InfToken == 0
FloatInf == -1
\* None, as stored in _next_obs by _create_state
NoneObs == 0
\* the empty keyword set {} reset uses when reset_param is None
EmptyParam == 0
\* self._env_ref when the attribute does not exist
NoRef == -1
\* an actor call or a factory call that raises instead of returning
RaiseOut == -1
\* no factory call raises
NoFail == -1

Slots == 1..EnvNum
Obs == 1..MaxObs
NoAttr == <<>>
NoneParam == <<>>

BudgetArgs == (1..MaxBudget) \cup {InfToken}
CfgLens == {n \in {EnvNum - 1, EnvNum} : n >= 1}
ResetParamInputs == {NoneParam, [i \in Slots |-> i]}
SeedInputs == {[i \in Slots |-> 5 + 4 * (i - 1)], [i \in Slots |-> 7]}
\* The pool never looks into an observation, so the observations of step
\* timesteps are taken distinct from those of reset calls.
StepObs == {MaxObs + o : o \in Obs}
ResetOuts == Obs \cup {RaiseOut}
\* what one slot's actor does in a step call: its step raises, or returns a
\* timestep with observation obs and done=false, or one with done=true,
\* after which reset is what the actor's reset does if the pool auto-resets it
StepOuts == [kind : {"raise"}, obs : {RaiseOut}]
            \cup [kind : {"cont"}, obs : StepObs]
            \cup [kind : {"done"}, obs : StepObs, reset : ResetOuts]

VARIABLES
  _closed, _env_ref, _env_episode_count, _env_done, _next_obs, _envs,
  _reset_param, _env_seed, _episode_num, _env_cfg,
  calls,      \* the actor invocations of the last pool call, in order
  timestep,   \* the timesteps the last step call got, per slot
  raised,     \* how the last pool call ended: "none" or the kind of error
  lastOp,     \* the last pool call
  built,      \* the last accepted launch got through _create_state
  doneSeen,   \* done=true timesteps seen per slot since launch last made the slot records
  launched,   \* the last accepted launch returned without raising
  lastObs,    \* the observation each slot's actors last returned since launch made the records
  relaunch    \* the last call was an accepted launch that found episodes counted before it

vars == <<_closed, _env_ref, _env_episode_count, _env_done, _next_obs, _envs,
          _reset_param, _env_seed, _episode_num, _env_cfg,
          calls, timestep, raised, lastOp, built, doneSeen,
          launched, lastObs, relaunch>>

\* the object and the bookkeeping as one record, at the start of a pool call
Self ==
  [closed |-> _closed, env_ref |-> _env_ref,
   env_episode_count |-> _env_episode_count, env_done |-> _env_done,
   next_obs |-> _next_obs, envs |-> _envs, reset_param |-> _reset_param,
   env_seed |-> _env_seed, built |-> built,
   doneSeen |-> doneSeen, launched |-> launched, lastObs |-> lastObs,
   relaunch |-> FALSE,
   calls |-> <<>>, timestep |-> [i \in Slots |-> "none"], raised |-> "none"]

Raise(s, kind) == [s EXCEPT !.raised = kind]
Called(s, op, i, arg) == [s EXCEPT !.calls = Append(@, <<op, i, arg>>)]

\* ------------------------------------------------------------- queries
\* next_obs, keeping the slots that are done
next_obs_kept_done(done, obs) == [i \in {j \in DOMAIN done : done[j]} |-> obs[i]]
\* done, as any() in place of all()
done_any(env_done) == \E i \in DOMAIN env_done : env_done[i]

\* the property next_obs
next_obs(done, obs) == [i \in {j \in DOMAIN done : ~done[j]} |-> obs[i]]
\* the property done
done(env_done) == \A i \in DOMAIN env_done : env_done[i]

\* --------------------------------------------------------------- close
close(s) ==
  IF s.closed THEN s
  ELSE IF s.env_ref = NoRef THEN Raise(s, "attr")
  ELSE LET r == Called([s EXCEPT !.env_ref = @ + 1], "close", 0, 0)
       IN IF r.envs = NoAttr THEN Raise(r, "attr")
          ELSE [r EXCEPT !.envs = [i \in DOMAIN @ |-> @[i] + 1],
                         !.calls = @ \o [i \in DOMAIN r.envs |-> <<"close", i, 0>>],
                         !.closed = TRUE]

\* safe_run_except, re-raising without closing the pool
safe_run_except_noclose(s, kind) == Raise(s, kind)

\* the except branch of _safe_run: fn raised an error of this kind
safe_run_except(s, kind) ==
  LET c == close(s)
  IN IF c.raised # "none" THEN c ELSE Raise(c, kind)

\* --------------------------------------------------------------- reset
\* reset_env, clearing the slot's done flag as it resets the actor
reset_env_clears_done(s, i, out) ==
  IF s.envs = NoAttr THEN safe_run_except(s, "attr")
  ELSE IF i > Len(s.envs) THEN safe_run_except(s, "index")
  ELSE IF s.reset_param = NoAttr THEN safe_run_except(s, "attr")
  ELSE LET r == Called(s, "reset", i, s.reset_param[i])
       IN IF out = RaiseOut THEN safe_run_except(r, "actor")
          ELSE [r EXCEPT !.next_obs[i] = out, !.lastObs[i] = out, !.env_done[i] = FALSE]

\* _reset(env_id) where the actor's reset returns out, or raises
reset_env(s, i, out) ==
  IF s.envs = NoAttr THEN safe_run_except(s, "attr")
  ELSE IF i > Len(s.envs) THEN safe_run_except(s, "index")
  ELSE IF s.reset_param = NoAttr THEN safe_run_except(s, "attr")
  ELSE LET r == Called(s, "reset", i, s.reset_param[i])
       IN IF out = RaiseOut THEN safe_run_except(r, "actor")
          ELSE [r EXCEPT !.next_obs[i] = out, !.lastObs[i] = out]

\* the seed loop of reset; the seedFail-th seed call raises (0: none does)
apply_seeds(s, seedFail) ==
  IF s.envs = NoAttr THEN Raise(s, "attr")
  ELSE LET n == IF Len(s.envs) < Len(s.env_seed) THEN Len(s.envs) ELSE Len(s.env_seed)
           fails == seedFail \in 1..n
           k == IF fails THEN seedFail ELSE n
           r == [s EXCEPT !.calls = @ \o [i \in 1..k |-> <<"seed", i, s.env_seed[i]>>]]
       IN IF fails THEN Raise(r, "actor") ELSE r

\* reset_loop, leaving out the slots that are done
RECURSIVE reset_loop_skips_done(_, _, _)
reset_loop_skips_done(s, i, outs) ==
  IF i > EnvNum THEN s
  ELSE IF s.env_done # NoAttr /\ s.env_done[i] THEN reset_loop_skips_done(s, i + 1, outs)
  ELSE LET t == reset_env(s, i, outs[i])
       IN IF t.raised # "none" THEN t ELSE reset_loop_skips_done(t, i + 1, outs)

RECURSIVE reset_loop(_, _, _)
reset_loop(s, i, outs) ==
  IF i > EnvNum THEN s
  ELSE LET t == reset_env(s, i, outs[i])
       IN IF t.raised # "none" THEN t ELSE reset_loop(t, i + 1, outs)

\* reset, applying the stored seeds after the actors were reset
reset_seeds_late(s, rp, seedFail, outs) ==
  LET a == [s EXCEPT !.reset_param =
                 IF rp = NoneParam THEN [i \in Slots |-> EmptyParam] ELSE rp]
  IN IF a.env_seed = NoAttr /\ a.env_ref = NoRef THEN Raise(a, "attr")
     ELSE LET b == reset_loop(a, 1, outs)
          IN IF b.raised = "none" /\ b.env_seed # NoAttr
             THEN apply_seeds(b, seedFail) ELSE b

\* reset, forgetting the stored seeds once it has applied them
reset_consumes_seeds(s, rp, seedFail, outs) ==
  LET a == [s EXCEPT !.reset_param =
                 IF rp = NoneParam THEN [i \in Slots |-> EmptyParam] ELSE rp]
  IN IF a.env_seed = NoAttr /\ a.env_ref = NoRef THEN Raise(a, "attr")
     ELSE LET b == IF a.env_seed # NoAttr
                   THEN [apply_seeds(a, seedFail) EXCEPT !.env_seed = NoAttr]
                   ELSE a
          IN IF b.raised # "none" THEN b ELSE reset_loop(b, 1, outs)

reset(s, rp, seedFail, outs) ==
  LET a == [s EXCEPT !.reset_param =
                 IF rp = NoneParam THEN [i \in Slots |-> EmptyParam] ELSE rp]
  IN IF a.env_seed = NoAttr /\ a.env_ref = NoRef THEN Raise(a, "attr")
     ELSE LET b == IF a.env_seed # NoAttr THEN apply_seeds(a, seedFail) ELSE a
          IN IF b.raised # "none" THEN b ELSE reset_loop(b, 1, outs)

\* -------------------------------------------------------------- launch
\* create_state, keeping the episode counts a previous launch left
create_state_keeps_counts(s, cfg, failAt) ==
  LET a == [s EXCEPT !.closed = FALSE]
  IN IF failAt = 0 THEN Raise(a, "factory")
     ELSE LET b == [a EXCEPT !.env_ref = 0,
                             !.env_episode_count =
                                IF @ = NoAttr THEN [i \in Slots |-> 0] ELSE @,
                             !.env_done = [i \in Slots |-> FALSE],
                             !.doneSeen = [i \in Slots |-> 0],
                             !.lastObs = [i \in Slots |-> NoneObs],
                             !.next_obs = [i \in Slots |-> NoneObs]]
          IN IF failAt \in 1..cfg
             THEN Raise(b, "factory")
             ELSE LET c == [b EXCEPT !.envs = [i \in 1..cfg |-> 0]]
                  IN IF Len(c.envs) # EnvNum THEN Raise(c, "assert") ELSE c

\* failAt: the factory call that raises; 0 is the reference actor's, k the
\* k-th slot actor's, NoFail none
create_state(s, cfg, failAt) ==
  LET a == [s EXCEPT !.closed = FALSE]
  IN IF failAt = 0 THEN Raise(a, "factory")
     ELSE LET b == [a EXCEPT !.env_ref = 0,
                             !.env_episode_count = [i \in Slots |-> 0],
                             !.env_done = [i \in Slots |-> FALSE],
                             !.doneSeen = [i \in Slots |-> 0],
                             !.lastObs = [i \in Slots |-> NoneObs],
                             !.next_obs = [i \in Slots |-> NoneObs]]
          IN IF failAt \in 1..cfg
             THEN Raise(b, "factory")
             ELSE LET c == [b EXCEPT !.envs = [i \in 1..cfg |-> 0]]
                  IN IF Len(c.envs) # EnvNum THEN Raise(c, "assert") ELSE c

\* launch, without the assertion that the pool is closed
launch_unchecked(s, cfg, failAt, rp, seedFail, outs) ==
  LET g == [s EXCEPT !.built = FALSE, !.launched = FALSE,
                     !.relaunch = \E i \in DOMAIN s.env_episode_count :
                                    s.env_episode_count[i] > 0]
      c == create_state(g, cfg, failAt)
  IN IF c.raised # "none" THEN c
     ELSE LET r == reset([c EXCEPT !.built = TRUE], rp, seedFail, outs)
          IN [r EXCEPT !.launched = (r.raised = "none")]

launch(s, cfg, failAt, rp, seedFail, outs) ==
  IF ~s.closed THEN Raise(s, "state")
  ELSE LET g == [s EXCEPT !.built = FALSE, !.launched = FALSE,
                          !.relaunch = \E i \in DOMAIN s.env_episode_count :
                                         s.env_episode_count[i] > 0]
           c == create_state(g, cfg, failAt)
       IN IF c.raised # "none" THEN c
          ELSE LET r == reset([c EXCEPT !.built = TRUE], rp, seedFail, outs)
               IN [r EXCEPT !.launched = (r.raised = "none")]

\* ---------------------------------------------------------------- step
\* step_env, counting every timestep as a finished episode
step_env_counts_all(s, i, out) ==
  IF s.envs = NoAttr THEN safe_run_except(s, "attr")
  ELSE IF i > Len(s.envs) THEN safe_run_except(s, "index")
  ELSE LET r == Called(s, "step", i, 0)
       IN IF out.kind = "raise" THEN safe_run_except(r, "actor")
          ELSE LET t == [r EXCEPT !.timestep[i] = out.kind, !.lastObs[i] = out.obs,
                                  !.env_episode_count[i] = @ + 1]
               IN IF out.kind = "done"
                  THEN LET u == [t EXCEPT !.doneSeen[i] = @ + 1]
                       IN IF u.env_episode_count[i] = _episode_num
                          THEN [u EXCEPT !.env_done[i] = TRUE]
                          ELSE reset_env(u, i, out.reset)
                  ELSE [t EXCEPT !.next_obs[i] = out.obs]

\* step_env, comparing the count with the budget before incrementing it
step_env_stale_count(s, i, out) ==
  IF s.envs = NoAttr THEN safe_run_except(s, "attr")
  ELSE IF i > Len(s.envs) THEN safe_run_except(s, "index")
  ELSE LET r == Called(s, "step", i, 0)
       IN IF out.kind = "raise" THEN safe_run_except(r, "actor")
          ELSE LET t == [r EXCEPT !.timestep[i] = out.kind, !.lastObs[i] = out.obs]
               IN IF out.kind = "done"
                  THEN LET u == [t EXCEPT !.env_episode_count[i] = @ + 1,
                                          !.doneSeen[i] = @ + 1]
                       IN IF t.env_episode_count[i] = _episode_num
                          THEN [u EXCEPT !.env_done[i] = TRUE]
                          ELSE reset_env(u, i, out.reset)
                  ELSE [t EXCEPT !.next_obs[i] = out.obs]

\* step_env, keeping the finished episode's last observation when the slot
\* is auto-reset
step_env_keeps_timestep_obs(s, i, out) ==
  IF s.envs = NoAttr THEN safe_run_except(s, "attr")
  ELSE IF i > Len(s.envs) THEN safe_run_except(s, "index")
  ELSE LET r == Called(s, "step", i, 0)
       IN IF out.kind = "raise" THEN safe_run_except(r, "actor")
          ELSE LET t == [r EXCEPT !.timestep[i] = out.kind, !.lastObs[i] = out.obs]
               IN IF out.kind = "done"
                  THEN LET u == [t EXCEPT !.env_episode_count[i] = @ + 1,
                                          !.doneSeen[i] = @ + 1]
                       IN IF u.env_episode_count[i] = _episode_num
                          THEN [u EXCEPT !.env_done[i] = TRUE]
                          ELSE LET v == reset_env(u, i, out.reset)
                               IN IF v.raised # "none" THEN v
                                  ELSE [v EXCEPT !.next_obs[i] = out.obs]
                  ELSE [t EXCEPT !.next_obs[i] = out.obs]

\* step_env, resetting the actor also when the slot reaches its budget
step_env_resets_at_budget(s, i, out) ==
  IF s.envs = NoAttr THEN safe_run_except(s, "attr")
  ELSE IF i > Len(s.envs) THEN safe_run_except(s, "index")
  ELSE LET r == Called(s, "step", i, 0)
       IN IF out.kind = "raise" THEN safe_run_except(r, "actor")
          ELSE LET t == [r EXCEPT !.timestep[i] = out.kind, !.lastObs[i] = out.obs]
               IN IF out.kind = "done"
                  THEN LET u == [t EXCEPT !.env_episode_count[i] = @ + 1,
                                          !.doneSeen[i] = @ + 1]
                       IN IF u.env_episode_count[i] = _episode_num
                          THEN reset_env([u EXCEPT !.env_done[i] = TRUE], i, out.reset)
                          ELSE reset_env(u, i, out.reset)
                  ELSE [t EXCEPT !.next_obs[i] = out.obs]

\* one iteration of step's loop: slot i's actor behaves as out
step_env(s, i, out) ==
  IF s.envs = NoAttr THEN safe_run_except(s, "attr")
  ELSE IF i > Len(s.envs) THEN safe_run_except(s, "index")
  ELSE LET r == Called(s, "step", i, 0)
       IN IF out.kind = "raise" THEN safe_run_except(r, "actor")
          ELSE LET t == [r EXCEPT !.timestep[i] = out.kind, !.lastObs[i] = out.obs]
               IN IF out.kind = "done"
                  THEN LET u == [t EXCEPT !.env_episode_count[i] = @ + 1,
                                          !.doneSeen[i] = @ + 1]
                       IN IF u.env_episode_count[i] = _episode_num
                          THEN [u EXCEPT !.env_done[i] = TRUE]
                          ELSE reset_env(u, i, out.reset)
                  ELSE [t EXCEPT !.next_obs[i] = out.obs]

RECURSIVE step_loop(_, _, _, _)
step_loop(s, action, k, outs) ==
  IF k > Len(action) THEN s
  ELSE LET t == step_env(s, action[k], outs[k])
       IN IF t.raised # "none" THEN t ELSE step_loop(t, action, k + 1, outs)

\* check_closed, passing on a closed pool
check_closed_skipped(s) == s

\* _check_closed
check_closed(s) == IF s.closed THEN Raise(s, "state") ELSE s

step(s, action, outs) ==
  LET c == check_closed(s)
  IN IF c.raised # "none" THEN c ELSE step_loop(c, action, 1, outs)

\* ---------------------------------------------------------------- seed
seed(s, seeds) == [s EXCEPT !.env_seed = seeds]

\* ------------------------------------------------------------- actions
\* the action mappings of step: the slots named, in iteration order
ActionInputs ==
  {a \in UNION {[1..n -> Slots] : n \in 0..EnvNum} :
     \A j, k \in DOMAIN a : j # k => a[j] # a[k]}

Bounded(s) ==
  /\ s.env_ref <= MaxCloses
  /\ \A i \in DOMAIN s.envs : s.envs[i] <= MaxCloses
  /\ \A i \in DOMAIN s.env_episode_count : s.env_episode_count[i] <= MaxCount

Commit(op, s) ==
  /\ Bounded(s)
  /\ lastOp' = op
  /\ _closed' = s.closed
  /\ _env_ref' = s.env_ref
  /\ _env_episode_count' = s.env_episode_count
  /\ _env_done' = s.env_done
  /\ _next_obs' = s.next_obs
  /\ _envs' = s.envs
  /\ _reset_param' = s.reset_param
  /\ _env_seed' = s.env_seed
  /\ built' = s.built
  /\ doneSeen' = s.doneSeen
  /\ launched' = s.launched
  /\ lastObs' = s.lastObs
  /\ relaunch' = s.relaunch
  /\ calls' = s.calls
  /\ timestep' = s.timestep
  /\ raised' = s.raised
  /\ UNCHANGED <<_episode_num, _env_cfg>>

\* __init__
Init ==
  /\ _closed = TRUE
  /\ _env_cfg \in CfgLens
  /\ \E b \in BudgetArgs : _episode_num = IF b = InfToken THEN FloatInf ELSE b
  /\ _env_ref = NoRef
  /\ _env_episode_count = NoAttr
  /\ _env_done = NoAttr
  /\ _next_obs = NoAttr
  /\ _envs = NoAttr
  /\ _reset_param = NoAttr
  /\ _env_seed = NoAttr
  /\ calls = <<>>
  /\ timestep = [i \in Slots |-> "none"]
  /\ raised = "none"
  /\ lastOp = "init"
  /\ built = FALSE
  /\ doneSeen = [i \in Slots |-> 0]
  /\ launched = FALSE
  /\ lastObs = [i \in Slots |-> NoneObs]
  /\ relaunch = FALSE

\* The inputs a call cannot look at are not enumerated: a call that fails its
\* lifecycle check reads none, a reset without stored seeds makes no seed call.
SeedFails == IF _env_seed = NoAttr THEN {0} ELSE 0..EnvNum

Launch ==
  \/ /\ ~_closed
     /\ Commit("launch", launch(Self, _env_cfg, NoFail, NoneParam, 0, [i \in Slots |-> RaiseOut]))
  \/ /\ _closed
     /\ \E failAt \in 0.._env_cfg :
          Commit("launch", launch(Self, _env_cfg, failAt, NoneParam, 0, [i \in Slots |-> RaiseOut]))
  \/ /\ _closed
     /\ \E rp \in ResetParamInputs, seedFail \in SeedFails, outs \in [Slots -> ResetOuts] :
          Commit("launch", launch(Self, _env_cfg, NoFail, rp, seedFail, outs))

Reset ==
  \E rp \in ResetParamInputs, seedFail \in SeedFails, outs \in [Slots -> ResetOuts] :
    Commit("reset", reset(Self, rp, seedFail, outs))

Step ==
  \/ /\ _closed
     /\ \E action \in ActionInputs :
          Commit("step", step(Self, action, [k \in DOMAIN action |-> [kind |-> "raise", obs |-> RaiseOut]]))
  \/ /\ ~_closed
     /\ \E action \in ActionInputs : \E outs \in [DOMAIN action -> StepOuts] :
          Commit("step", step(Self, action, outs))

Seed == \E seeds \in SeedInputs : Commit("seed", seed(Self, seeds))

Close == Commit("close", close(Self))

Next == Launch \/ Reset \/ Step \/ Seed \/ Close

Spec == Init /\ [][Next]_vars

\* -------------------------------------------------------------- claims
HasSlots == _env_done # NoAttr
Finite == _episode_num # FloatInf
\* the actor invocations of the last pool call on slot i with one of these names
CallsOn(i, ops) == {k \in DOMAIN calls : calls[k][2] = i /\ calls[k][1] \in ops}

\* C1: with a finite budget B, slot i is pool-done exactly when B or more
\* done=true timesteps have been seen for it since launch made its record:
\* not before the B-th, and from the step that sees the B-th on.
C1_DoneAtBudget ==
  HasSlots =>
    \A i \in Slots : _env_done[i] <=> (Finite /\ doneSeen[i] >= _episode_num)

\* budget 2: slot 1 has just seen its second done timestep and is pool-done,
\* slot 2 has seen one and is not
C1_Witness ==
  /\ lastOp = "step" /\ built /\ _episode_num = 2
  /\ timestep[1] = "done" /\ doneSeen[1] = 2 /\ _env_done[1]
  /\ doneSeen[2] = 1 /\ ~_env_done[2]

\* C2: when an actor's step, or the auto-reset inside step, raises, the step
\* call ends with the pool closed: close was invoked on the reference actor
\* and on every slot actor during the call, and _closed is true.
C2_StepFailureClosesPool ==
  (lastOp = "step" /\ raised = "actor") =>
    /\ _closed
    /\ _env_ref >= 1
    /\ CallsOn(0, {"close"}) # {}
    /\ \A k \in DOMAIN _envs : _envs[k] >= 1 /\ CallsOn(k, {"close"}) # {}

\* slot 1 stepped to a done timestep, its auto-reset raised, and slot 2,
\* which was not stepped at all, was closed with it
C2_Witness ==
  /\ lastOp = "step" /\ raised = "actor" /\ built
  /\ timestep[1] = "done" /\ CallsOn(1, {"reset"}) # {}
  /\ CallsOn(2, {"step", "reset"}) = {} /\ CallsOn(2, {"close"}) # {}

\* a launch, reset, ... call was made on a closed pool, and it was a reset
ResetOnClosed == _closed /\ lastOp' = "reset"
\* launch passed its assertion and ran _create_state
LaunchAccepted == _closed /\ lastOp' = "launch"
NoOpenActor ==
  /\ _env_ref = NoRef \/ _env_ref >= 1
  /\ \A k \in DOMAIN _envs : _envs[k] >= 1

\* C3: a reset call on a closed pool fails and invokes no actor's seed or
\* reset.
C3_ResetOnClosedPoolRejected ==
  [][ResetOnClosed =>
       /\ raised' # "none"
       /\ \A k \in DOMAIN calls' : calls'[k][1] \notin {"seed", "reset"}]_vars

\* C4: a launch that fails in _create_state (the factory raises, or the
\* actor count check fails) leaves the pool closed.
C4_FailedLaunchStaysClosed ==
  (lastOp = "launch" /\ raised \in {"factory", "assert"}) => _closed

\* C5: _closed is true exactly when no actor the pool refers to is open.
C5_ClosedIffNoOpenActor == _closed <=> NoOpenActor

\* C6 as stated: once a slot of a launched pool is pool-done it stays
\* pool-done, and no pool call other than an accepted launch invokes step or
\* reset on its actor.
C6_DoneSlotNeverInvoked ==
  [][\A i \in DOMAIN _env_done :
       (built /\ _env_done[i] /\ ~LaunchAccepted) =>
         /\ _env_done'[i]
         /\ \A k \in DOMAIN calls' :
              calls'[k][2] = i => calls'[k][1] \notin {"step", "reset"}]_vars

\* C6 as amended: once a slot is pool-done it stays pool-done until a launch
\* is accepted; a step call invokes its actor only when the action mapping
\* names the slot (every call on it follows a step call on it); a full reset
\* that returns has invoked reset on its actor like on every other slot's.
C6_DoneSlotStaysDone ==
  [][\A i \in DOMAIN _env_done :
       (_env_done[i] /\ ~LaunchAccepted) =>
         /\ _env_done'[i]
         /\ lastOp' = "step" =>
              \A k \in DOMAIN calls' :
                (calls'[k][2] = i /\ calls'[k][1] \in {"step", "reset"}) =>
                  \E j \in 1..k : calls'[j] = <<"step", i, 0>>
         /\ (lastOp' = "reset" /\ raised' = "none") =>
              \E k \in DOMAIN calls' : calls'[k][1] = "reset" /\ calls'[k][2] = i]_vars

\* a full reset returned on an open pool with slot 1 pool-done: the slot is
\* still pool-done and its actor was reset
C6_Witness ==
  /\ lastOp = "reset" /\ raised = "none" /\ built /\ ~_closed
  /\ _env_done[1] /\ CallsOn(1, {"reset"}) # {}

\* C7: outside an accepted launch a slot's episode count changes only in a
\* step call whose timestep for the slot has done=true, and then by exactly
\* one; every such timestep changes it.
C7_EpisodeCountSteps ==
  [][(_env_episode_count # NoAttr /\ ~LaunchAccepted) =>
       \A i \in Slots :
         IF lastOp' = "step" /\ timestep'[i] = "done"
         THEN _env_episode_count'[i] = _env_episode_count[i] + 1
         ELSE _env_episode_count'[i] = _env_episode_count[i]]_vars

\* one step call: slot 1 finished an episode (count 1), slot 2 went on (count 0)
C7_Witness ==
  /\ lastOp = "step" /\ built
  /\ timestep[1] = "done" /\ _env_episode_count[1] = 1
  /\ timestep[2] = "cont" /\ _env_episode_count[2] = 0

\* C8: the keys of next_obs are exactly the slots that are not pool-done, and
\* all EnvNum slots when launch has just returned.
C8_NextObsKeys ==
  HasSlots =>
    /\ DOMAIN next_obs(_env_done, _next_obs) = {i \in Slots : ~_env_done[i]}
    /\ (lastOp = "launch" /\ raised = "none") =>
         Cardinality(DOMAIN next_obs(_env_done, _next_obs)) = EnvNum

\* slot 1 is pool-done and slot 2 is not: next_obs has the one key 2
C8_Witness ==
  /\ built /\ ~_closed /\ _env_done[1] /\ ~_env_done[2]
  /\ DOMAIN next_obs(_env_done, _next_obs) = {2}

\* C9: done is true exactly when the budget is finite and every slot's episode
\* count has reached it; it is false when launch has just returned.
C9_PoolDone ==
  HasSlots =>
    /\ done(_env_done) <=>
         (Finite /\ \A i \in Slots : _env_episode_count[i] >= _episode_num)
    /\ (lastOp = "launch" /\ raised = "none") => ~done(_env_done)

\* budget 2, both slots have finished two episodes: the pool is done
C9_Witness ==
  /\ built /\ _episode_num = 2 /\ done(_env_done)
  /\ \A i \in Slots : _env_episode_count[i] = 2

\* C10: close on a closed pool changes nothing and invokes no actor, and no
\* actor the pool refers to has its close invoked more than once.
C10_CloseOncePerActor ==
  [][/\ (_closed /\ lastOp' = "close") =>
          /\ calls' = <<>> /\ raised' = "none"
          /\ UNCHANGED <<_closed, _env_ref, _envs, _env_episode_count,
                         _env_done, _next_obs, _reset_param, _env_seed>>
     /\ _env_ref' <= 1
     /\ \A k \in DOMAIN _envs' : _envs'[k] <= 1]_vars

\* the state launch leaves when it returns: new actors that were never closed,
\* for the reference and for every slot, zero counts, no done flag, and an
\* observation from the reset of every slot
Rebuilt ==
  /\ ~_closed
  /\ _env_ref = 0
  /\ _envs = [i \in Slots |-> 0]
  /\ _env_episode_count = [i \in Slots |-> 0]
  /\ _env_done = [i \in Slots |-> FALSE]
  /\ \A i \in Slots : _next_obs[i] \in Obs /\ CallsOn(i, {"reset"}) # {}

\* C11: a launch on a closed pool is not rejected, and when it returns the
\* pool is rebuilt whatever the counts and done flags were before: new
\* actors for the reference and every slot, every episode count 0, every done
\* flag false, an observation from the initial reset in every slot.
C11_LaunchAfterCloseRebuilds ==
  [][(_closed /\ lastOp' = "launch")
       => /\ raised' # "state"
          /\ raised' = "none" => Rebuilt']_vars

\* a launch that found episodes counted before it has returned
C11_Witness ==
  /\ lastOp = "launch" /\ raised = "none" /\ relaunch
  /\ Rebuilt

FullReset == lastOp \in {"reset", "launch"}

\* C12: with seeds stored, a full reset invokes seed(seeds[i]) on slot i's
\* actor before it invokes that actor's reset, once for every slot when the
\* reset returns, and never seeds the reference actor.
C12_SeedBeforeReset ==
  (FullReset /\ _env_seed # NoAttr)
    => /\ CallsOn(0, {"seed"}) = {}
       /\ \A i \in Slots :
            /\ \A j \in CallsOn(i, {"reset"}) :
                 \E k \in CallsOn(i, {"seed"}) :
                   k < j /\ calls[k][3] = _env_seed[i]
            /\ raised = "none" /\ calls # <<>>
                 => /\ Cardinality(CallsOn(i, {"seed"})) = 1
                    /\ CallsOn(i, {"reset"}) # {}

\* reset() has returned after seeding the two actors with different seeds
C12_Witness ==
  /\ lastOp = "reset" /\ raised = "none" /\ ~_closed
  /\ _env_seed # NoAttr /\ _env_seed[1] # _env_seed[2]
  /\ Len(calls) = 2 * EnvNum
  /\ \A i \in Slots : calls[i] = <<"seed", i, _env_seed[i]>>
  /\ \A i \in Slots : calls[EnvNum + i][1] = "reset"

\* C13: when an actor's seed call raises while a full reset applies the stored
\* seeds, the pool is closed, with every actor released, by the time the
\* error reaches the caller.
C13_SeedFailureClosesPool ==
  (FullReset /\ raised = "actor" /\ calls # <<>> /\ calls[Len(calls)][1] = "seed")
    => _closed /\ NoOpenActor

\* the attributes of the pool that describe its actors and slots
pool == <<_closed, _env_ref, _envs, _env_episode_count, _env_done, _next_obs,
          _reset_param, _env_seed>>

\* C14: launch on an open pool fails with a state error and changes nothing:
\* no actor is constructed, reset or closed, and the counts, done flags,
\* observations and the closed flag keep their values.
C14_LaunchOnOpenPoolRejected ==
  [][(~_closed /\ lastOp' = "launch")
       => raised' = "state" /\ calls' = <<>> /\ UNCHANGED pool]_vars

\* a launched pool that has counted an episode and holds a step observation
\* has rejected a launch
C14_Witness ==
  /\ lastOp = "launch" /\ raised = "state" /\ ~_closed /\ launched
  /\ \E i \in Slots : _env_episode_count[i] > 0
  /\ \E i \in Slots : _next_obs[i] \in StepObs

\* C15: step on a closed pool fails with a state error before any actor is
\* invoked and leaves every slot's episode count, done flag and observation
\* as they were.
C15_StepOnClosedPoolRejected ==
  [][(_closed /\ lastOp' = "step")
       => raised' = "state" /\ calls' = <<>> /\ UNCHANGED pool]_vars

\* a pool closed after it counted an episode has rejected a step
C15_Witness ==
  /\ lastOp = "step" /\ raised = "state" /\ _closed
  /\ _env_ref # NoRef /\ _env_ref >= 1
  /\ \E i \in Slots : _env_episode_count[i] > 0

\* C16: in an open pool whose launch has returned, the observation stored
\* for every slot that is not done is defined and is the one the slot's actor
\* returned last: the observation of its reset when the slot was last reset,
\* by a full reset or by the reset that follows a finished episode, and the
\* observation of its last timestep otherwise.
C16_NextObsIsLatest ==
  (launched /\ ~_closed)
    => \A i \in Slots :
         ~_env_done[i]
           => /\ _next_obs[i] # NoneObs
              /\ _next_obs[i] = lastObs[i]
              /\ FullReset /\ raised = "none" /\ calls # <<>> => _next_obs[i] \in Obs
              /\ lastOp = "step" /\ timestep[i] = "done" => _next_obs[i] \in Obs
              /\ lastOp = "step" /\ timestep[i] = "cont" => _next_obs[i] \in StepObs

\* a step has finished an episode in one slot, which was reset, and has gone
\* on with the episode of the other
C16_Witness ==
  /\ launched /\ ~_closed /\ lastOp = "step" /\ raised = "none"
  /\ \E i, j \in Slots :
       /\ timestep[i] = "done" /\ ~_env_done[i] /\ _next_obs[i] \in Obs
       /\ timestep[j] = "cont" /\ ~_env_done[j] /\ _next_obs[j] \in StepObs

\* C17: whenever the pool is open and holds slot actors, it holds env_num of
\* them, one per configuration; a launch given another number of
\* configurations leaves no open pool behind.
C17_OpenPoolHasEnvNumActors ==
  (~_closed /\ _envs # NoAttr) => Len(_envs) = EnvNum /\ _env_cfg = EnvNum

\* the actor invocations of the call that ends in the next state
NextCallsOn(i, ops) == {k \in DOMAIN calls' : calls'[k][2] = i /\ calls'[k][1] \in ops}

\* C18: when a step gets a done=true timestep for a slot and the incremented
\* count equals the budget, the slot is marked done, its actor is not reset,
\* is not closed unless the call fails, and its stored observation stays;
\* otherwise the slot's actor is reset exactly once, with the parameters the
\* last full reset stored for the slot, and the stored observation becomes
\* the one that reset returned. The slots the step did not name keep their
\* count, done flag, observation and actor, and only slots with a done=true
\* timestep are reset.
C18_DoneTimestepHandling ==
  [][lastOp' = "step"
       => /\ \A i \in Slots :
               timestep'[i] = "done"
                 => IF _env_episode_count'[i] = _episode_num
                    THEN /\ _env_done'[i]
                         /\ NextCallsOn(i, {"reset"}) = {}
                         /\ _next_obs'[i] = _next_obs[i]
                         /\ raised' = "none"
                              => /\ NextCallsOn(i, {"close"}) = {}
                                 /\ _envs'[i] = _envs[i]
                    ELSE /\ _env_done'[i] = _env_done[i]
                         /\ _reset_param # NoAttr
                              => /\ Cardinality(NextCallsOn(i, {"reset"})) = 1
                                 /\ \A k \in NextCallsOn(i, {"reset"}) :
                                      calls'[k][3] = _reset_param[i]
                                 /\ raised' = "none"
                                      => _next_obs'[i] \in Obs /\ _next_obs'[i] = lastObs'[i]
          /\ \A i \in Slots :
               /\ NextCallsOn(i, {"reset"}) # {} => timestep'[i] = "done"
               /\ NextCallsOn(i, {"step"}) = {}
                    => /\ timestep'[i] = "none"
                       /\ _env_episode_count # NoAttr
                            => /\ _env_episode_count'[i] = _env_episode_count[i]
                               /\ _env_done'[i] = _env_done[i]
                               /\ _next_obs'[i] = _next_obs[i]
                       /\ raised' = "none" => _envs' = _envs
          /\ _reset_param' = _reset_param]_vars

\* one step has brought a slot to its budget, leaving the timestep
\* observation it held, and has reset another slot with the stored parameters
C18_Witness ==
  /\ lastOp = "step" /\ raised = "none" /\ launched /\ ~_closed
  /\ \E i, j \in Slots :
       /\ timestep[i] = "done" /\ _env_done[i]
       /\ CallsOn(i, {"reset"}) = {} /\ _next_obs[i] \in StepObs
       /\ timestep[j] = "done" /\ ~_env_done[j]
       /\ _reset_param[j] # EmptyParam
       /\ \E k \in CallsOn(j, {"reset"}) : calls[k][3] = _reset_param[j]
       /\ _next_obs[j] \in Obs

IsResetCall(c) == c[1] = "reset"

\* C19: a full reset of an open pool that returns has invoked reset on every
\* slot's actor, done slots included, in the order of the slot indices, each
\* with the parameters given for its slot, and has left every episode count
\* and done flag as it was; of the pool's attributes only the observations
\* and the stored reset parameters may differ.
C19_FullResetAllSlotsInOrder ==
  [][(~_closed /\ lastOp' = "reset" /\ raised' = "none")
       => /\ SelectSeq(calls', IsResetCall)
               = [i \in Slots |-> <<"reset", i, _reset_param'[i]>>]
          /\ UNCHANGED <<_env_episode_count, _env_done, _closed, _env_ref,
                         _envs, _env_seed>>]_vars

\* a pool with a done slot and counted episodes has been reset
C19_Witness ==
  /\ lastOp = "reset" /\ raised = "none" /\ ~_closed /\ launched
  /\ \E i, j \in Slots :
       /\ _env_done[i] /\ CallsOn(i, {"reset"}) # {}
       /\ ~_env_done[j] /\ _env_episode_count[j] > 0

\* C20: the stored seeds change only in a seed call; with seeds stored,
\* every full reset that gets to resetting actors, the one inside launch
\* included, has first seeded every slot actor with the seed stored for it,
\* and a step call, whose resets are single-slot ones, seeds no actor.
C20_SeedsPersist ==
  [][/\ lastOp' # "seed" => _env_seed' = _env_seed
     /\ lastOp' = "step" => \A k \in DOMAIN calls' : calls'[k][1] # "seed"
     /\ ( /\ lastOp' \in {"reset", "launch"}
          /\ _env_seed # NoAttr
          /\ \E k \in DOMAIN calls' : calls'[k][1] = "reset" )
          => \A i \in DOMAIN _envs' :
               \E k \in NextCallsOn(i, {"seed"}) :
                 /\ calls'[k][3] = _env_seed[i]
                 /\ \A j \in DOMAIN calls' : calls'[j][1] = "reset" => k < j]_vars

\* a launch that found episodes counted before it has seeded the new actors
\* with the stored seeds
C20_Witness ==
  /\ lastOp = "launch" /\ raised = "none" /\ relaunch /\ _env_seed # NoAttr
  /\ \A i \in Slots : \E k \in CallsOn(i, {"seed"}) : calls[k][3] = _env_seed[i]

====
